---- MODULE Spec2Model ----
(***************************************************************************)
(* Model of delly's SV annotation tool (src/src/annotate.cpp): main() and  *)
(* runAnnotate().  Strings are sequences of one-character strings.  An     *)
(* optional value (a NULL pointer, an INFO field a record does not carry)  *)
(* is the empty sequence; a present one is a one-element sequence.         *)
(*                                                                         *)
(* The output file is kept by its end: the key of the record written last  *)
(* (outKey) and, while an iteration of the record loop is complete and     *)
(* the next has not begun, everything that iteration read, computed and    *)
(* wrote (last).                                                           *)
(***************************************************************************)
EXTENDS Integers, Sequences, FiniteSets, TLC

\* ------------------------------------------------------------- bounds
\* Largest number of records the variant source holds on one chromosome.
MaxCands == 2

\* ------------------------------------------------------------ helpers
Max(a, b) == IF a >= b THEN a ELSE b
Min(a, b) == IF a <= b THEN a ELSE b

\* std::toupper on one character, and boost::to_upper_copy on a string.
ToUpperChar(ch) ==
  CASE ch = "a" -> "A"
    [] ch = "c" -> "C"
    [] ch = "g" -> "G"
    [] ch = "t" -> "T"
    [] ch = "n" -> "N"
    [] OTHER -> ch
to_upper_copy(s) == [i \in 1..Len(s) |-> ToUpperChar(s[i])]

\* std::string::substr(pos, n) for pos <= size(): at most n characters from
\* the 0-based offset pos; it throws std::out_of_range when pos > size().
SubstrThrows(s, pos) == pos < 0 \/ pos > Len(s)
substr(s, pos, n) == SubSeq(s, pos + 1, pos + Min(n, Len(s) - pos))

\* std::string(first, last) over the chromosome buffer, 0-based [first, last).
Range(s, first, last) == SubSeq(s, first + 1, last)

\* ------------------------------------------------------------- inputs
\* The reference FASTA: chromosomes in file order.  chrU is not a contig of
\* the variant file's header.
Reference ==
  << [name |-> "chr1", seq |-> <<"a", "C", "g", "T">>],
     [name |-> "chrU", seq |-> <<"n", "n">>],
     [name |-> "chr2", seq |-> <<"G", "t">>] >>

\* The contig lists a variant-file header may declare.
Headers == { <<"chr1", "chr2">>, <<>> }

\* Consensus sequences a record may carry in its CONSENSUS field.
Consensi == { <<"a">>, <<"A", "c", "G">> }

\* Values of --type and --maxlen given on the command line.
TypeOptions == {"DEL", "INS", "DUP"}
MaxLens == {2}

\* SVTYPE values a record may carry.
SvTypes == {"DEL", "INS"}

\* INSLEN / SRQ / CE annotations an input record may already carry.
Annotations ==
  { [inslen |-> <<>>, srq |-> <<>>, ce |-> <<>>],
    [inslen |-> <<7>>, srq |-> <<"srq_in">>, ce |-> <<"ce_in">>] }

\* END values a record on a chromosome of length len may carry.
Ends(len) == {0, len \div 2, len}

Opt(S) == {<<>>} \cup {<<x>> : x \in S}

\* The records bcf_itr_next can yield on a chromosome of length len: the
\* region query [0, len) returns records with 0 <= pos < len.
Candidates(len) ==
  { [pos |-> p, svtype |-> t, end |-> e, precise |-> pr, cons |-> co,
     inslen |-> a.inslen, srq |-> a.srq, ce |-> a.ce] :
      p \in 0..(len - 1), t \in Opt(SvTypes), e \in Opt(Ends(len)),
      pr \in BOOLEAN, co \in Opt(Consensi), a \in Annotations }

\* ------------------------------------------------ external operations
\* _addID(svType): the VCF identifier of an SV type tag (tags.h).
addID(tag) ==
  CASE tag = "DeletionTag" -> "DEL"
    [] tag = "InsertionTag" -> "INS"

\* bcf_get_info_string / bcf_get_info_int32 (htslib): when the record
\* carries the field the destination buffer receives its value; when it
\* does not, the call returns a negative count and leaves the destination
\* as it was.
bcf_get_info(field, dst) == IF field # <<>> THEN field ELSE dst

\* _consRefAlignment: the aligner reports success or failure.
consRefAlignment(consensus, svRefStr) == BOOLEAN

\* Quality values the locator may report (0 = worst, 1 = best).
Qualities == {1}

\* _findSplit: failure (<<>>) or a breakpoint.  The spans are half-open,
\* the consensus span lies in the consensus, and the reference span lies in
\* the window after the anchor base that precedes it.
Breakpoints(consLen, winLen) ==
  { bp \in [cStart : 1..consLen, cEnd : 1..consLen,
            rStart : 2..winLen, rEnd : 2..winLen, quality : Qualities] :
      bp.cStart <= bp.cEnd /\ bp.rStart <= bp.rEnd }
findSplit(consLen, winLen) ==
  {<<>>} \cup { <<bp>> : bp \in Breakpoints(consLen, winLen) }

\* entropy(consensus): the sequence-complexity score, kept symbolic.
entropy(s) == [fn |-> "entropy", of |-> s]

\* ------------------------------------------------------------- state
VARIABLES
  pc,     \* control position: main, open, genome, records, looped, finish,
          \* exit0, exit1, crashed
  env,    \* command line and files: infileGiven, refOk, infileOk, idxOk, contigs
  cfg,    \* ConfigAnnotate: svType, maxlen
  hdr,    \* contigs of the header read from the variant file
  chrom,  \* index in Reference of the sequence kseq_read returned last
  itr,    \* the open region iterator: records read, position of the last one
  svt,    \* SVTYPE buffer (char* svt)
  svend,  \* END buffer (int32_t* svend)
  cons,   \* CONSENSUS buffer (char* cons)
  ub,     \* the run went through undefined behaviour and kept running
  last,   \* <<outcome>> of the loop iteration just completed, else <<>>
  outKey  \* <<[chr, pos]>> of the record written last, <<>> for an empty file

vars == <<pc, env, cfg, hdr, chrom, itr, svt, svend, cons, ub, last, outKey>>

\* The SVType<...> tag main() instantiates runAnnotate with.
SVTag == IF cfg.svType = "DEL" THEN "DeletionTag" ELSE "InsertionTag"

\* ------------------------------------------- one iteration of the loop
\* The outcome of one iteration for record c: the buffers and the end of
\* the output before it, the buffers after it, whether the run died in it,
\* how many records it wrote, the record written, and the values the
\* iteration computed on the way (<<>> where not computed).
Blank(c, b) ==
  [cand |-> c, before |-> b, svt |-> b.svt, svend |-> b.svend, cons |-> b.cons,
   ub |-> b.ub,
   crashed |-> FALSE, written |-> 0, rec |-> <<>>,
   svlen |-> <<>>, eligible |-> <<>>, useTags |-> <<>>,
   consensus |-> <<>>, regStart |-> <<>>, regEnd |-> <<>>,
   alignOk |-> <<>>, bp |-> <<>>]

Crash(o) == [o EXCEPT !.crashed = TRUE]

\* The run went through undefined behaviour and kept running.
Undefined(o) == [o EXCEPT !.ub = TRUE]

\* Lines 223-230: the symbolic-allele record, then bcf_write1.
TagRecord(c, chr, tag) ==
  [rid |-> chr.name, pos |-> c.pos,
   ref |-> to_upper_copy(Range(chr.seq, c.pos, c.pos + 1)),
   alt |-> <<"<", addID(tag), ">">>,
   end |-> c.end, inslen |-> c.inslen, srq |-> c.srq, ce |-> c.ce]

WriteTags(c, chr, tag, o) ==
  [o EXCEPT !.useTags = <<TRUE>>, !.written = 1, !.rec = <<TagRecord(c, chr, tag)>>]

\* Lines 200-219: alleles and INFO fields of a refined record.
RefPart(svRefStr, bp) ==
  substr(svRefStr, bp.rStart - 2, 1) \o
    (IF bp.rEnd > bp.rStart + 1
       THEN substr(svRefStr, bp.rStart - 1, bp.rEnd - bp.rStart) ELSE <<>>)

AltPart(svRefStr, consensus, bp) ==
  substr(svRefStr, bp.rStart - 2, 1) \o
    (IF bp.cEnd > bp.cStart + 1
       THEN substr(consensus, bp.cStart - 1, bp.cEnd - bp.cStart) ELSE <<>>)

ComposeThrows(svRefStr, consensus, bp) ==
  \/ SubstrThrows(svRefStr, bp.rStart - 2)
  \/ bp.rEnd > bp.rStart + 1 /\ SubstrThrows(svRefStr, bp.rStart - 1)
  \/ bp.cEnd > bp.cStart + 1 /\ SubstrThrows(consensus, bp.cStart - 1)

RefinedPos(regStart, bp) == regStart + bp.rStart - 2
RefinedEnd(regStart, bp) == regStart + bp.rEnd
RefinedInsLen(bp) == bp.cEnd - bp.cStart - 1

RefinedRecord(c, chr, consensus, svRefStr, regStart, bp) ==
  [rid |-> chr.name, pos |-> RefinedPos(regStart, bp),
   ref |-> RefPart(svRefStr, bp),
   alt |-> AltPart(svRefStr, consensus, bp),
   end |-> <<RefinedEnd(regStart, bp)>>,
   inslen |-> <<RefinedInsLen(bp)>>,
   srq |-> <<bp.quality>>,
   ce |-> <<entropy(consensus)>>]

\* Mutant of AlignStage: a failed aligner or locator ends the iteration
\* (continue) instead of setting useTags.
AlignStage_SkipsOnFailure(c, chr, tag, o, consensus, svRefStr, regStart) ==
  UNION { IF ~ok
            THEN { [o EXCEPT !.alignOk = <<FALSE>>] }
            ELSE { LET oa == [o EXCEPT !.alignOk = <<TRUE>>, !.bp = s] IN
                   IF s = <<>> THEN oa
                   ELSE IF ComposeThrows(svRefStr, consensus, s[1]) THEN Crash(oa)
                   ELSE [oa EXCEPT !.useTags = <<FALSE>>, !.written = 1,
                                   !.rec = <<RefinedRecord(c, chr, consensus, svRefStr,
                                                           regStart, s[1])>>] :
                   s \in findSplit(Len(consensus), Len(svRefStr)) } :
          ok \in consRefAlignment(consensus, svRefStr) }

\* Lines 173-221: aligner, locator, composer.
AlignStage(c, chr, tag, o, consensus, svRefStr, regStart) ==
  UNION { IF ~ok
            THEN { WriteTags(c, chr, tag, [o EXCEPT !.alignOk = <<FALSE>>]) }
            ELSE { LET oa == [o EXCEPT !.alignOk = <<TRUE>>, !.bp = s] IN
                   IF s = <<>> THEN WriteTags(c, chr, tag, oa)
                   ELSE IF ComposeThrows(svRefStr, consensus, s[1]) THEN Crash(oa)
                   ELSE [oa EXCEPT !.useTags = <<FALSE>>, !.written = 1,
                                   !.rec = <<RefinedRecord(c, chr, consensus, svRefStr,
                                                           regStart, s[1])>>] :
                   s \in findSplit(Len(consensus), Len(svRefStr)) } :
          ok \in consRefAlignment(consensus, svRefStr) }

\* Lines 168-171: the reference window.  e is the value read through svend.
RegStart(pos, consLen) == Max(pos - consLen, 0)
\* regEnd = std::min((uint32_t) *svend + consLen, (uint32_t) seq->seq.l), for
\* int32_t e and 0 <= consLen, seqLen < 2^31.  The sum is taken modulo 2^32:
\* for e + consLen >= 0 it is e + consLen (a negative e wraps round to it);
\* for e + consLen < 0 it is 2^32 + e + consLen, which exceeds seqLen.
RegEnd(e, consLen, seqLen) ==
  IF e + consLen >= 0 THEN Min(e + consLen, seqLen) ELSE seqLen

\* std::string(first, last) with last < first is undefined: the run dies
\* (libstdc++ throws std::length_error) or goes on with an empty window.
WindowStage(c, chr, tag, o, consensus, e) ==
  LET consLen == Len(consensus)
      regStart == RegStart(c.pos, consLen)
      regEnd == RegEnd(e, consLen, Len(chr.seq))
      ow == [o EXCEPT !.consensus = <<consensus>>,
                      !.regStart = <<regStart>>, !.regEnd = <<regEnd>>]
  IN IF regEnd < regStart
       THEN {Crash(ow)} \cup
            AlignStage(c, chr, tag, Undefined(ow), consensus, <<>>, regStart)
       ELSE AlignStage(c, chr, tag, ow, consensus,
                       to_upper_copy(Range(chr.seq, regStart, regEnd)), regStart)

\* Values a read through a NULL int32_t* may produce when it does not trap.
WildEnds(chr) == {0, Len(chr.seq)}

\* Line 170 dereferences svend: NULL when no record so far carried END.
EndStage(c, chr, tag, o, consensus) ==
  IF o.svend = <<>>
    THEN {Crash(o)} \cup
         UNION { WindowStage(c, chr, tag, Undefined(o), consensus, e) :
                   e \in WildEnds(chr) }
    ELSE WindowStage(c, chr, tag, o, consensus, o.svend[1])

\* Lines 163-166: the consensus.  std::string(cons) with cons NULL is
\* undefined: the run dies (libstdc++ throws std::logic_error) or goes on
\* with the bytes it finds.
ConsensusStage(c, chr, tag, o) ==
  LET cons1 == bcf_get_info(c.cons, o.cons)
      oc == [o EXCEPT !.cons = cons1]
  IN IF cons1 = <<>>
       THEN {Crash(oc)} \cup
            UNION { EndStage(c, chr, tag, Undefined(oc), to_upper_copy(g)) :
                      g \in Consensi }
       ELSE EndStage(c, chr, tag, oc, to_upper_copy(cons1[1]))

\* Lines 148-151: svlen.
SvLen(pos, svend1) == IF svend1 # <<>> THEN svend1[1] - pos ELSE 1

\* Mutant of Eligible: the PRECISE flag is not tested.
Eligible_IgnoresPrecise(svlen, maxlen, precise) == svlen <= maxlen

\* Line 159: the refinement condition.
Eligible(svlen, maxlen, precise) == svlen <= maxlen /\ precise

\* Line 146: the type filter on the SVTYPE buffer.
TypeSkip(svt1, tag) == svt1 # <<>> /\ svt1[1] # addID(tag)

\* Lines 142-230: the body of the record loop for record c on chromosome
\* chr, entered in state b = [svt, svend, cons, ub, chr, outKey].
Iterate(c, chr, tag, maxlen, b) ==
  LET svt1 == bcf_get_info(c.svtype, b.svt)
      o1 == [Blank(c, b) EXCEPT !.svt = svt1]
  IN IF TypeSkip(svt1, tag) THEN {o1}
     ELSE LET svend1 == bcf_get_info(c.end, b.svend)
              svlen == SvLen(c.pos, svend1)
              el == Eligible(svlen, maxlen, c.precise)
              o2 == [o1 EXCEPT !.svend = svend1, !.svlen = <<svlen>>,
                               !.eligible = <<el>>]
          IN IF el THEN ConsensusStage(c, chr, tag, o2)
             ELSE { WriteTags(c, chr, tag, o2) }

\* ------------------------------------------------------------ actions
Init ==
  /\ pc = "main"
  /\ env \in [infileGiven : BOOLEAN, refOk : BOOLEAN, infileOk : BOOLEAN,
              idxOk : BOOLEAN, contigs : Headers]
  /\ cfg \in [svType : TypeOptions, maxlen : MaxLens]
  /\ hdr = <<>>
  /\ chrom = 0
  /\ itr = [n |-> 0, pos |-> 0]
  /\ svt = <<>>
  /\ svend = <<>>
  /\ cons = <<>>
  /\ ub = FALSE
  /\ last = <<>>
  /\ outKey = <<>>

\* main(), lines 297-329: usage check, reference check, type dispatch.
Main ==
  /\ pc = "main"
  /\ pc' = IF ~env.infileGiven THEN "exit1"
           ELSE IF ~env.refOk THEN "exit1"
           ELSE IF cfg.svType \in {"DEL", "INS"} THEN "open"
           ELSE "exit1"
  /\ UNCHANGED <<env, cfg, hdr, chrom, itr, svt, svend, cons, ub, last, outKey>>

\* runAnnotate, lines 88-130: open the variant file, load its index, read
\* its header, write the output header, open the reference.  No result is
\* tested.  bcf_hdr_read on the NULL handle of an unreadable file is
\* undefined: the run dies or goes on with a header that names no contig.
OpenFiles ==
  /\ pc = "open"
  /\ IF env.infileOk
       THEN pc' = "genome" /\ hdr' = env.contigs /\ ub' = ub
       ELSE \/ pc' = "crashed" /\ hdr' = hdr /\ ub' = ub
            \/ pc' = "genome" /\ hdr' = <<>> /\ ub' = TRUE
  /\ UNCHANGED <<env, cfg, chrom, itr, svt, svend, cons, last, outKey>>

\* bcf_hdr_name2id: a contig of the header has an id >= 0.
name2id(h, name) == IF \E i \in 1..Len(h) : h[i] = name THEN 0 ELSE -1

\* Lines 131-137: kseq_read, the contig lookup and the region query.
\* bcf_itr_queryi on a NULL index is undefined: the run dies or gets no
\* iterator.
NextChrom ==
  /\ pc = "genome"
  /\ IF chrom + 1 > Len(Reference)
       THEN pc' = "finish" /\ UNCHANGED <<chrom, itr, ub>>
       ELSE /\ chrom' = chrom + 1
            /\ IF name2id(hdr, Reference[chrom + 1].name) < 0
                 THEN pc' = "genome" /\ UNCHANGED <<itr, ub>>
                 ELSE IF env.idxOk
                   THEN pc' = "records" /\ itr' = [n |-> 0, pos |-> 0] /\ ub' = ub
                   ELSE \/ pc' = "crashed" /\ UNCHANGED <<itr, ub>>
                        \/ pc' = "genome" /\ ub' = TRUE /\ UNCHANGED itr
  /\ UNCHANGED <<env, cfg, hdr, svt, svend, cons, last, outKey>>

\* Lines 139-231, one iteration: bcf_itr_next yields the next record of
\* the chromosome (in position order) and the loop body runs on it.
ProcessRecord ==
  /\ pc = "records"
  /\ itr.n < MaxCands
  /\ \E c \in Candidates(Len(Reference[chrom].seq)) :
       /\ c.pos >= itr.pos
       /\ \E o \in Iterate(c, Reference[chrom], SVTag, cfg.maxlen,
                           [svt |-> svt, svend |-> svend, cons |-> cons,
                            ub |-> ub, chr |-> chrom, outKey |-> outKey]) :
            /\ last' = <<o>>
            /\ svt' = o.svt
            /\ svend' = o.svend
            /\ cons' = o.cons
            /\ ub' = o.ub
            /\ itr' = [n |-> itr.n + 1, pos |-> c.pos]
            /\ pc' = IF o.crashed THEN "crashed" ELSE "looped"
            /\ outKey' = IF o.written = 1
                           THEN <<[chr |-> chrom, pos |-> o.rec[1].pos]>>
                           ELSE outKey
  /\ UNCHANGED <<env, cfg, hdr, chrom>>

\* Line 139: back at the head of the loop; the record object is reused.
LoopBack ==
  /\ pc = "looped"
  /\ pc' = "records"
  /\ last' = <<>>
  /\ UNCHANGED <<env, cfg, hdr, chrom, itr, svt, svend, cons, ub, outKey>>

\* Lines 141, 232-235: bcf_itr_next reports the end of the region.
EndOfRecords ==
  /\ pc = "records"
  /\ pc' = "genome"
  /\ UNCHANGED <<env, cfg, hdr, chrom, itr, svt, svend, cons, ub, last, outKey>>

\* Lines 236-260: close the files, build the index, return 0.
Finish ==
  /\ pc = "finish"
  /\ pc' = "exit0"
  /\ UNCHANGED <<env, cfg, hdr, chrom, itr, svt, svend, cons, ub, last, outKey>>

Next ==
  Main \/ OpenFiles \/ NextChrom \/ ProcessRecord \/ LoopBack \/ EndOfRecords \/ Finish

Spec == Init /\ [][Next]_vars

\* ------------------------------------------------------------- claims
\* Vocabulary of the claims, over the iteration just completed.
\* Defined: the run has executed no undefined behaviour so far.
Defined == ~ub
Completed == last # <<>> /\ ~last[1].crashed
Written == Completed /\ last[1].written = 1
Refined == Written /\ last[1].useTags = <<FALSE>>
ChrOf(o) == Reference[o.before.chr]
UpperBases == {"A", "C", "G", "T", "N"}

\* The record's own SVTYPE equals the requested type, or it has none.
TypeMatches(c) == c.svtype = <<>> \/ c.svtype[1] = addID(SVTag)

\* The fallback form: REF the uppercase reference base at the record's
\* input position, ALT the symbolic tag, position and END as in the input.
FallbackForm(o) ==
  /\ o.rec[1].ref = <<ToUpperChar(ChrOf(o).seq[o.cand.pos + 1])>>
  /\ o.rec[1].ref[1] \in UpperBases
  /\ o.rec[1].alt = <<"<", cfg.svType, ">">>
  /\ o.rec[1].rid = ChrOf(o).name
  /\ o.rec[1].pos = o.cand.pos
  /\ o.rec[1].end = o.cand.end

\* C1: every record whose own SVTYPE is the requested type or is absent is
\* written exactly once by the iteration that read it, whatever records
\* preceded it (stated for the runs whose behaviour is defined and the
\* iterations that run to their end).
C1_OneRecordPerMatch ==
  (Defined /\ Completed /\ TypeMatches(last[1].cand)) => last[1].written = 1

\* C2: a written record whose candidate lacks PRECISE or has
\* svLength > maxLength (the length the loop computed, or END - pos of a
\* record that carries END) is in the fallback form, whatever its consensus.
C2_Ineligible(o) ==
  \/ ~o.cand.precise
  \/ o.svlen[1] > cfg.maxlen
  \/ o.cand.end # <<>> /\ o.cand.end[1] - o.cand.pos > cfg.maxlen
C2_IneligibleIsFallback ==
  (Written /\ C2_Ineligible(last[1])) =>
     /\ last[1].useTags = <<TRUE>>
     /\ FallbackForm(last[1])

\* C2 witness: an imprecise record that carries a consensus was written on a
\* lowercase reference base.
C2_Witness ==
  /\ Written
  /\ ~last[1].cand.precise
  /\ last[1].cand.cons # <<>>
  /\ ChrOf(last[1]).seq[last[1].cand.pos + 1] = "a"
  /\ last[1].rec[1].ref = <<"A">>

\* C3: a record is never written after one with a greater
\* (chromosome, written position) key (stated for the runs whose behaviour
\* is defined).
KeyLE(a, b) == a.chr < b.chr \/ (a.chr = b.chr /\ a.pos <= b.pos)
C3_OutputSorted ==
  (Defined /\ Written /\ last[1].before.outKey # <<>>) =>
     KeyLE(last[1].before.outKey[1],
           [chr |-> last[1].before.chr, pos |-> last[1].rec[1].pos])

\* C4: when the aligner or the locator fails, the run does not die, the
\* record is written in the fallback form with INSLEN, SRQ and CE as in the
\* input, and the loop goes on to its next iteration.
AlignerFailed(o) == o.alignOk = <<FALSE>>
LocatorFailed(o) == o.alignOk = <<TRUE>> /\ o.bp = <<>>
C4_FailureAbsorbed ==
  (last # <<>> /\ (AlignerFailed(last[1]) \/ LocatorFailed(last[1]))) =>
     /\ ~last[1].crashed
     /\ pc = "looped"
     /\ last[1].written = 1
     /\ last[1].useTags = <<TRUE>>
     /\ FallbackForm(last[1])
     /\ last[1].rec[1].inslen = last[1].cand.inslen
     /\ last[1].rec[1].srq = last[1].cand.srq
     /\ last[1].rec[1].ce = last[1].cand.ce

\* C4 witness: the locator failed on an eligible record that carries
\* INSLEN, SRQ and CE.
C4_Witness ==
  /\ last # <<>>
  /\ LocatorFailed(last[1])
  /\ last[1].eligible = <<TRUE>>
  /\ last[1].cand.inslen = <<7>>
  /\ last[1].written = 1

\* C5: what an iteration does with a record (whether it writes, and what)
\* is something the same record could get as the first record of a run,
\* when all three buffers are still NULL (stated for the runs whose
\* behaviour is defined).
FreshBuffers(b) ==
  [b EXCEPT !.svt = <<>>, !.svend = <<>>, !.cons = <<>>, !.ub = FALSE]
C5_NoStateAcrossCandidates ==
  (Defined /\ last # <<>>) =>
    \E f \in Iterate(last[1].cand, ChrOf(last[1]), SVTag, cfg.maxlen,
                     FreshBuffers(last[1].before)) :
       /\ f.crashed = last[1].crashed
       /\ f.written = last[1].written
       /\ f.rec = last[1].rec

\* C6: a refined record's alleles start with the same base and have lengths
\* 1 + (rEnd - rStart) and 1 + (cEnd - cStart).
C6_RefinedAlleles ==
  (Defined /\ Refined) =>
    LET bp == last[1].bp[1]
        r == last[1].rec[1]
    IN /\ r.ref[1] = r.alt[1]
       /\ Len(r.ref) = 1 + (bp.rEnd - bp.rStart)
       /\ Len(r.alt) = 1 + (bp.cEnd - bp.cStart)

\* C7: a refined record's END is at or after the record's input position
\* (stated for the records whose own END is after their position).
C7_RefinedEndAfterPos ==
  (Defined /\ Refined /\ last[1].cand.end # <<>>
     /\ last[1].cand.end[1] > last[1].cand.pos) =>
    last[1].rec[1].end[1] >= last[1].cand.pos

\* C8: a refined record has INSLEN = cEnd - cStart - 1 >= 0.
C8_RefinedInsLen ==
  (Defined /\ Refined) =>
    /\ last[1].rec[1].inslen = <<last[1].bp[1].cEnd - last[1].bp[1].cStart - 1>>
    /\ last[1].rec[1].inslen[1] >= 0

\* C9: the run returns 0 only when the reference, the variant file and its
\* index were all opened (stated for the runs whose behaviour is defined).
C9_ZeroOnlyIfOpened ==
  (Defined /\ pc = "exit0") => (env.refOk /\ env.infileOk /\ env.idxOk)

\* C10: whenever the window is computed, 0 <= regStart <= regEnd <=
\* chromosome length (stated for the runs whose behaviour was defined up
\* to the start of the iteration, and the records that carry a CONSENSUS
\* and read END from a buffer that is not NULL).
C10_WindowInBounds ==
  (last # <<>> /\ last[1].regStart # <<>> /\ ~last[1].before.ub
     /\ last[1].svend # <<>> /\ last[1].cand.cons # <<>>) =>
    /\ 0 <= last[1].regStart[1]
    /\ last[1].regStart[1] <= last[1].regEnd[1]
    /\ last[1].regEnd[1] <= Len(ChrOf(last[1]).seq)

====
